---- MODULE Spec2Model ----
(***************************************************************************)
(* A model of .github/scripts/update_index_md.py: the UpdateFileContent    *)
(* class (marker location, contributors table, table of content) and the   *)
(* main() run over the fixed list of target files.                         *)
(*                                                                         *)
(* Text is modelled as sequences of string tokens: a line is a sequence of *)
(* tokens, a file a sequence of lines.  `marker in line` is membership of  *)
(* the marker token in the line.  A demo-path is a sequence of characters. *)
(* Line indices are the zero-based indices of the Python code.             *)
(***************************************************************************)
EXTENDS Integers, Sequences, FiniteSets, TLC

VARIABLES
    DATA,           \* UpdateFileContent.DATA: the log, records in insertion order
    disk,           \* the target files on disk: path -> sequence of lines
    FILES,          \* the (FILE_PATH, condition) calls the entry point makes, in order
    k,              \* position in FILES of the call in progress
    pc,             \* the step the run is at
    status,         \* how the process ended, once it has
    FILE_PATH,      \* self.FILE_PATH
    condition,      \* the condition argument of the update in progress
    lines,          \* self.lines
    updated_lines,  \* the rows or outline the last update method generated
    runs,           \* how many times the entry point has been started
    disk0,          \* the files as they were when the current run started
    search_type,    \* argument of a direct call of find_table_points
    points          \* outcome of that call

vars == <<DATA, disk, FILES, k, pc, status, FILE_PATH, condition, lines,
          updated_lines, runs, disk0, search_type, points>>

-----------------------------------------------------------------------------
(* Bounds of the model *)

MaxLines == 4       \* lines of a file handed to find_table_points directly
MaxBetween == 2     \* lines between the contributors markers of a target file
MaxRecords == 2     \* records of the log
MaxPathLen == 3     \* characters of a demo-path
MaxRuns == 2        \* times the automation is triggered

-----------------------------------------------------------------------------
(* Basic sequence helpers *)

Min(a, b) == IF a < b THEN a ELSE b
Max(a, b) == IF a > b THEN a ELSE b

Range(s) == {s[i] : i \in DOMAIN s}

\* Python's `marker in line`
Contains(line, marker) == \E i \in DOMAIN line : line[i] = marker

RECURSIVE Flatten(_)
Flatten(ss) == IF ss = <<>> THEN <<>> ELSE Head(ss) \o Flatten(Tail(ss))

\* Python's sep.join(parts), parts a sequence of token sequences
RECURSIVE Join(_, _)
Join(sep, parts) ==
    IF parts = <<>> THEN <<>>
    ELSE IF Len(parts) = 1 THEN parts[1]
    ELSE parts[1] \o sep \o Join(sep, Tail(parts))

\* Python's lines[a:b] = new for 0 <= a: both ends are clamped to the length
\* and an end before the start is moved up to the start
SliceAssign(ls, a, b, new) ==
    LET n  == Len(ls)
        lo == Min(a, n)
        hi == Max(lo, Min(b, n))
    IN  SubSeq(ls, 1, lo) \o new \o SubSeq(ls, hi + 1, n)

-----------------------------------------------------------------------------
(* find_table_points *)

CONTRIBUTORS_BEGINS == "<!-- TABLE OF CONTRIBUTORS BEGINS -->"
CONTRIBUTORS_ENDS == "<!-- TABLE OF CONTRIBUTORS ENDS -->"
CONTENT_BEGINS == "<!-- TABLE OF CONTENT BEGINS -->"
CONTENT_ENDS == "<!-- TABLE OF CONTENT ENDS -->"

\* Python's None for a line index
None == -1

table_start_marker(type) ==
    IF type = "contributors" THEN CONTRIBUTORS_BEGINS
    ELSE IF type = "table-of-content" THEN CONTENT_BEGINS
    ELSE "None"

table_end_marker(type) ==
    IF type = "contributors" THEN CONTRIBUTORS_ENDS
    ELSE IF type = "table-of-content" THEN CONTENT_ENDS
    ELSE "None"

\* One iteration of the marker loop on the line at zero-based `index`:
\* the end marker is looked for only when the `if` branch was not taken
ScanStep(line, index, sm, em, sp, ep) ==
    IF sp = None /\ Contains(line, sm) THEN <<index, ep>>
    ELSE IF ep = None /\ Contains(line, em) THEN <<sp, index>>
    ELSE <<sp, ep>>

\* The marker loop from zero-based `index` on, with its break
RECURSIVE ScanLines(_, _, _, _, _, _)
ScanLines(ls, index, sm, em, sp, ep) ==
    IF index >= Len(ls) THEN <<sp, ep>>
    ELSE LET r == ScanStep(ls[index + 1], index, sm, em, sp, ep)
         IN  IF r[1] # None /\ r[2] # None THEN r
             ELSE ScanLines(ls, index + 1, sm, em, r[1], r[2])

\* exit = 0: the pair (start, end) is returned; otherwise the exit code
find_table_points(ls, type) ==
    IF type \notin {"contributors", "table-of-content"}
    THEN [exit |-> 1, start |-> None, end |-> None]
    ELSE LET r == ScanLines(ls, 0, table_start_marker(type),
                            table_end_marker(type), None, None)
         IN  IF r[1] = None \/ r[2] = None
             THEN [exit |-> 2, start |-> r[1], end |-> r[2]]
             ELSE IF r[1] >= r[2]
             THEN [exit |-> 3, start |-> r[1], end |-> r[2]]
             ELSE [exit |-> 0, start |-> r[1], end |-> r[2]]

-----------------------------------------------------------------------------
(* The log and the condition *)

REPO_NAME == "iamwatchdogs/test"

\* condition=None, and a predicate over the core value given by the cores it accepts
NoCondition == [is_none |-> TRUE, accepts |-> {}]
Predicate(S) == [is_none |-> FALSE, accepts |-> S]

\* the test with its `not` left out
rejected_inverted(cond, core) == ~cond.is_none /\ core \in cond.accepts

\* `condition is not None and not condition(core)`
rejected(cond, core) == ~cond.is_none /\ core \notin cond.accepts

-----------------------------------------------------------------------------
(* update_table_of_contributors *)

\* A table row: `| cell | ... | cell |\n`
Row(cells) == <<"| ">> \o Join(<<" | ">>, cells) \o <<" |\n">>

table_header(cond) ==
    IF cond.is_none
    THEN << Row(<< <<"Contribution Title">>, <<"Core Contribution">>,
                   <<"Contributor Names">>, <<"Pull Requests">>, <<"Demo">> >>),
            Row(<< <<"---">>, <<"---">>, <<"---">>, <<"---">>, <<"---">> >>) >>
    ELSE << Row(<< <<"Contribution Title">>, <<"Contributor Names">>,
                   <<"Pull Requests">>, <<"Demo">> >>),
            Row(<< <<"---">>, <<"---">>, <<"---">>, <<"---">> >>) >>

contributors_names_output(names) ==
    Join(<<", ">>,
         [i \in DOMAIN names |->
            <<"[", names[i], "](https://github.com/", names[i],
              " \"goto ", names[i], " profile\")">>])

core_contribution_output(core) ==
    IF core # "Repo"
    THEN <<"[", core, "](", core, " \"goto ", core, "\")">>
    ELSE <<"Repo">>

pull_requests_output(prs) ==
    Join(<<", ">>,
         [i \in DOMAIN prs |->
            <<"[#", prs[i], "](https://github.com/", REPO_NAME, "/pull/", prs[i],
              " \"visit pr \\#", prs[i], "\")">>])

\* str.split() with no argument: the maximal runs of non-whitespace characters
IsSpace(c) == c \in {" ", "\t", "\n"}

RECURSIVE SplitFrom(_, _, _)
SplitFrom(s, word, acc) ==
    IF s = <<>> THEN (IF word = <<>> THEN acc ELSE Append(acc, word))
    ELSE IF IsSpace(Head(s))
         THEN SplitFrom(Tail(s), <<>>, IF word = <<>> THEN acc ELSE Append(acc, word))
         ELSE SplitFrom(Tail(s), Append(word, Head(s)), acc)

split(s) == SplitFrom(s, <<>>, <<>>)

\* the link target written for a demo-path
demo_path_target(demo_path) ==
    IF Contains(demo_path, " ")
    THEN Join(<<"%20">>, split(demo_path))
    ELSE demo_path

demo_path_label(title, core, specificity) ==
    IF title = "root" \/ title = "{init}" THEN <<"[/", REPO_NAME, "/">>
    ELSE IF title = "{workflows}" THEN <<"[/", REPO_NAME, "/.github/workflows">>
    ELSE IF title = "{scripts}" THEN <<"[/", REPO_NAME, "/.github/scripts">>
    ELSE IF title = "{others}" THEN <<"[/", REPO_NAME, "/.github">>
    ELSE <<"[./", core, "/", specificity, "/">>

demo_path_output(title, details) ==
    demo_path_label(title, details.core, details.specificity)
        \o <<"](">> \o demo_path_target(details.demo_path)
        \o <<" \"view the result of ", title, "\")">>

\* the row appended for one record
record_row(details, cond) ==
    IF cond.is_none
    THEN Row(<< <<details.title>>,
                core_contribution_output(details.core),
                contributors_names_output(details.contributor_name),
                pull_requests_output(details.pull_request_number),
                demo_path_output(details.title, details) >>)
    ELSE Row(<< <<details.title>>,
                contributors_names_output(details.contributor_name),
                pull_requests_output(details.pull_request_number),
                demo_path_output(details.title, details) >>)

\* the loop over the log: records the condition rejects are skipped
RECURSIVE contributors_loop(_, _, _, _)
contributors_loop(data, cond, acc, has_at_least_one_entry) ==
    IF data = <<>>
    THEN [updated_lines |-> acc, has_at_least_one_entry |-> has_at_least_one_entry]
    ELSE IF rejected(cond, Head(data).core)
         THEN contributors_loop(Tail(data), cond, acc, has_at_least_one_entry)
         ELSE contributors_loop(Tail(data), cond,
                                Append(acc, record_row(Head(data), cond)), TRUE)

\* the null entry of the unfiltered table, whatever the condition
null_entry_five(cond) == Row(<< <<"-">>, <<"-">>, <<"-">>, <<"-">>, <<"-">> >>)

null_entry(cond) ==
    IF cond.is_none
    THEN Row(<< <<"-">>, <<"-">>, <<"-">>, <<"-">>, <<"-">> >>)
    ELSE Row(<< <<"-">>, <<"-">>, <<"-">>, <<"-">> >>)

\* the rows generated for the log, with the null entry of an empty table
contributors_rows(data, cond) ==
    LET r == contributors_loop(data, cond, <<>>, FALSE)
    IN  IF ~r.has_at_least_one_entry
        THEN Append(r.updated_lines, null_entry(cond))
        ELSE r.updated_lines

\* the header is created when the markers are adjacent; the end index found
\* before is used unchanged afterwards
with_table_header(ls, start, end, cond) ==
    IF end - start = 1
    THEN SliceAssign(ls, start + 1, end, table_header(cond))
    ELSE ls

contributors_lines(ls, start, end, data, cond) ==
    SliceAssign(with_table_header(ls, start, end, cond),
                start + 3, end, contributors_rows(data, cond))

-----------------------------------------------------------------------------
(* update_table_of_content *)

\* Python's order of the strings the model uses (by code point)
StringOrder ==
    <<"Arrays", "QuickSort", "Sorting", "Trees", "root", "{init}", "{others}",
      "{scripts}", "{workflows}">>

StrLess(a, b) ==
    \E i, j \in DOMAIN StringOrder :
        StringOrder[i] = a /\ StringOrder[j] = b /\ i < j

\* list.sort() and sorted(): ascending, by insertion
RECURSIVE Insert(_, _)
Insert(x, sorted) ==
    IF sorted = <<>> THEN <<x>>
    ELSE IF StrLess(x, Head(sorted)) THEN <<x>> \o sorted
    ELSE <<Head(sorted)>> \o Insert(x, Tail(sorted))

RECURSIVE Sort(_)
Sort(list) == IF list = <<>> THEN <<>> ELSE Insert(Head(list), Sort(Tail(list)))

RECURSIVE SortedKeys(_)
SortedKeys(S) ==
    IF S = {} THEN <<>>
    ELSE LET x == CHOOSE y \in S : \A z \in S \ {y} : StrLess(y, z)
         IN  <<x>> \o SortedKeys(S \ {x})

\* the outline skeleton, in its insertion order
Skeleton == <<"Theory", "Solved-Problems", "Repo">>

\* a value of the inner dictionaries: None, or a list of titles
NoneValue == [is_none |-> TRUE, list |-> <<>>]
ListValue(l) == [is_none |-> FALSE, list |-> l]

EmptyOutline == [core \in Range(Skeleton) |-> <<>>]

\* the extraction loop; the inner dictionaries are functions from the
\* specificities present to their values.  error: "" when the loop completes
RECURSIVE extract(_, _)
extract(data, toc) ==
    IF data = <<>> THEN [error |-> "", table_of_content |-> toc]
    ELSE LET title == Head(data).title
             core == Head(data).core
             specificity == Head(data).specificity
         IN  IF core \notin DOMAIN toc
             THEN [error |-> "KeyError", table_of_content |-> toc]
             ELSE IF specificity \notin DOMAIN toc[core]
             THEN extract(Tail(data),
                     [toc EXCEPT ![core] =
                        (specificity :> (IF specificity = title THEN NoneValue
                                         ELSE ListValue(<<title>>))) @@ @])
             ELSE IF title # specificity
             THEN IF toc[core][specificity].is_none
                  \* `title not in None` raises before the `is None` test is reached
                  THEN [error |-> "TypeError", table_of_content |-> toc]
                  ELSE IF title \notin Range(toc[core][specificity].list)
                  THEN extract(Tail(data),
                          [toc EXCEPT ![core][specificity] =
                             IF @.is_none THEN ListValue(<<title>>)
                             ELSE ListValue(Append(@.list, title))])
                  ELSE extract(Tail(data), toc)
             ELSE extract(Tail(data), toc)

\* the sorting loop: each list sorted; the keys are walked in sorted order below
sorted_outline(toc) ==
    [core \in DOMAIN toc |->
        [s \in DOMAIN toc[core] |->
            IF toc[core][s].is_none THEN toc[core][s]
            ELSE ListValue(Sort(toc[core][s].list))]]

\* the test without its `or core == 'Repo'`
skipped_by_condition(cond, core) == ~cond.is_none /\ core \notin cond.accepts

\* the categories the rendering loop skips
skipped(cond, core) == (~cond.is_none /\ core \notin cond.accepts) \/ core = "Repo"

main_heading_line(core) == <<"- [__", core, "__](", core, " \"goto ", core, "\")\n">>

heading_line(cond, core, heading) ==
    IF cond.is_none
    THEN <<"\t- [", heading, "](", core, "/", heading, " \"goto ", heading, "\")\n">>
    ELSE <<"- [__", heading, "__](", heading, " \"goto ", heading, "\")\n">>

sub_heading_line(cond, core, heading, sub_heading) ==
    IF cond.is_none
    THEN <<"\t\t- [", sub_heading, "](", core, "/", heading, "/", sub_heading,
           " \"goto ", sub_heading, "\")\n">>
    ELSE <<"\t- [", sub_heading, "](", heading, "/", sub_heading,
           " \"goto ", sub_heading, "\")\n">>

\* a heading and its sub-headings
heading_lines(cond, core, heading, value) ==
    <<heading_line(cond, core, heading)>> \o
    (IF ~value.is_none
     THEN [i \in DOMAIN value.list |->
             sub_heading_line(cond, core, heading, value.list[i])]
     ELSE <<>>)

\* the lines of one category
core_lines(cond, core, data) ==
    IF skipped(cond, core) THEN <<>>
    ELSE (IF cond.is_none THEN <<main_heading_line(core)>> ELSE <<>>) \o
         LET keys == SortedKeys(DOMAIN data)
         IN  Flatten([i \in DOMAIN keys |->
                        heading_lines(cond, core, keys[i], data[keys[i]])])

\* the rendering loop over the sorted outline
outline_lines(toc, cond) ==
    Flatten([i \in DOMAIN Skeleton |-> core_lines(cond, Skeleton[i], toc[Skeleton[i]])])

\* error and generated outline for a log
content_rows(data, cond) ==
    LET e == extract(data, EmptyOutline)
    IN  IF e.error # "" THEN [error |-> e.error, updated_lines |-> <<>>]
        ELSE [error |-> "",
              updated_lines |-> outline_lines(sorted_outline(e.table_of_content), cond)]

content_lines(ls, start, end, rows) == SliceAssign(ls, start + 1, end, rows)

-----------------------------------------------------------------------------
(* The run: main() and UpdateFileContent.__init__ *)

ROOT_INDEX_FILE_PATH == "index.md"
THEORY_INDEX_FILE_PATH == "Theory/index.md"
THEORY_README_FILE_PATH == "Theory/README.md"
SOLVED_PROBLEM_INDEX_FILE_PATH == "Solved-Problems/index.md"
SOLVED_PROBLEM_README_FILE_PATH == "Solved-Problems/README.md"

\* the calls of main(), in order
MainCalls ==
    << [path |-> ROOT_INDEX_FILE_PATH, condition |-> NoCondition],
       [path |-> THEORY_INDEX_FILE_PATH, condition |-> Predicate({"Theory"})],
       [path |-> THEORY_README_FILE_PATH, condition |-> Predicate({"Theory"})],
       [path |-> SOLVED_PROBLEM_INDEX_FILE_PATH,
        condition |-> Predicate({"Solved-Problems"})],
       [path |-> SOLVED_PROBLEM_README_FILE_PATH,
        condition |-> Predicate({"Solved-Problems"})] >>

\* the constructor up to get_lines: the file is read into self.lines
UpdateFileContent_init ==
    /\ pc = "main"
    /\ FILE_PATH' = FILES[k].path
    /\ condition' = FILES[k].condition
    /\ lines' = disk[FILES[k].path]
    /\ pc' = "update_table_of_contributors"
    /\ UNCHANGED <<DATA, disk, FILES, k, status, updated_lines, runs, disk0,
                   search_type, points>>

ExitStatus(code) ==
    IF code = 1 THEN "exit 1" ELSE IF code = 2 THEN "exit 2" ELSE "exit 3"

\* what the disk holds once self.lines has been written to FILE_PATH
written(d, path, ls) == [d EXCEPT ![path] = ls]

\* the method, saving the file as soon as the contributors table is done
update_table_of_contributors_saving ==
    /\ pc = "update_table_of_contributors"
    /\ LET p == find_table_points(lines, "contributors")
       IN  IF p.exit # 0
           THEN /\ pc' = "exit"
                /\ status' = ExitStatus(p.exit)
                /\ UNCHANGED <<lines, updated_lines, disk>>
           ELSE /\ lines' = contributors_lines(lines, p.start, p.end, DATA, condition)
                /\ updated_lines' = contributors_rows(DATA, condition)
                /\ disk' = written(disk, FILE_PATH, lines')
                /\ pc' = "update_table_of_content"
                /\ UNCHANGED status
    /\ UNCHANGED <<DATA, FILES, k, FILE_PATH, condition, runs, disk0,
                   search_type, points>>

update_table_of_contributors ==
    /\ pc = "update_table_of_contributors"
    /\ LET p == find_table_points(lines, "contributors")
       IN  IF p.exit # 0
           THEN /\ pc' = "exit"
                /\ status' = ExitStatus(p.exit)
                /\ UNCHANGED <<lines, updated_lines>>
           ELSE /\ lines' = contributors_lines(lines, p.start, p.end, DATA, condition)
                /\ updated_lines' = contributors_rows(DATA, condition)
                /\ pc' = "update_table_of_content"
                /\ UNCHANGED status
    /\ UNCHANGED <<DATA, disk, FILES, k, FILE_PATH, condition, runs, disk0,
                   search_type, points>>

update_table_of_content ==
    /\ pc = "update_table_of_content"
    /\ LET p == find_table_points(lines, "table-of-content")
           c == content_rows(DATA, condition)
       IN  IF p.exit # 0
           THEN /\ pc' = "exit"
                /\ status' = ExitStatus(p.exit)
                /\ UNCHANGED <<lines, updated_lines>>
           ELSE IF c.error # ""
           THEN /\ pc' = "exit"
                /\ status' = c.error
                /\ UNCHANGED <<lines, updated_lines>>
           ELSE /\ lines' = content_lines(lines, p.start, p.end, c.updated_lines)
                /\ updated_lines' = c.updated_lines
                /\ pc' = "write_lines_into_file"
                /\ UNCHANGED status
    /\ UNCHANGED <<DATA, disk, FILES, k, FILE_PATH, condition, runs, disk0,
                   search_type, points>>

\* the file is written and the constructor returns to main()
write_lines_into_file ==
    /\ pc = "write_lines_into_file"
    /\ disk' = written(disk, FILE_PATH, lines)
    /\ IF k = Len(FILES)
       THEN pc' = "done" /\ status' = "exit 0" /\ k' = k
       ELSE pc' = "main" /\ status' = status /\ k' = k + 1
    /\ UNCHANGED <<DATA, FILES, FILE_PATH, condition, lines, updated_lines, runs,
                   disk0, search_type, points>>

\* the automation is triggered again on the files the previous run left
main_again ==
    /\ pc = "done"
    /\ runs < MaxRuns
    /\ runs' = runs + 1
    /\ disk0' = disk
    /\ k' = 1
    /\ pc' = "main"
    /\ status' = "running"
    /\ UNCHANGED <<DATA, disk, FILES, FILE_PATH, condition, lines, updated_lines,
                   search_type, points>>

\* a direct call of find_table_points on self.lines
call_find_table_points ==
    /\ pc = "call"
    /\ points' = find_table_points(lines, search_type)
    /\ pc' = "returned"
    /\ UNCHANGED <<DATA, disk, FILES, k, status, FILE_PATH, condition, lines,
                   updated_lines, runs, disk0, search_type>>

-----------------------------------------------------------------------------
(* Inputs *)

NoPoints == [exit |-> 0, start |-> None, end |-> None]

Details(title, core, specificity, demo_path) ==
    [title |-> title, core |-> core, specificity |-> specificity,
     contributor_name |-> IF title = "Arrays" THEN <<"alice">> ELSE <<"alice", "bob">>,
     pull_request_number |-> IF title = "Arrays" THEN <<"7">> ELSE <<"1", "2">>,
     demo_path |-> demo_path]

DefaultDemoPath == <<"d", "e", "m", "o">>

Titles(log) == {log[i].title : i \in DOMAIN log}

\* the logs of exactly n records with distinct titles (the titles are the keys)
RECURSIVE LogsOfLen(_, _)
LogsOfLen(n, records) ==
    IF n = 0 THEN {<<>>}
    ELSE {Append(l, r) : <<l, r>> \in
            {x \in LogsOfLen(n - 1, records) \X records : x[2].title \notin Titles(x[1])}}

LogsUpTo(n, records) == UNION {LogsOfLen(i, records) : i \in 0..n}

\* lines of target files
OldLine(i) == <<"old line ", ToString(i), "\n">>

\* a target file with n lines between the contributors markers
WellFormed(n) ==
    << <<"# Index\n">>, <<CONTRIBUTORS_BEGINS, "\n">> >>
    \o [i \in 1..n |-> OldLine(i)]
    \o << <<CONTRIBUTORS_ENDS, "\n">>, <<"## Contents\n">>, <<CONTENT_BEGINS, "\n">>,
          <<"old outline\n">>, <<CONTENT_ENDS, "\n">>, <<"footer\n">> >>

\* the contributors end marker is missing
NoContributorsEnd ==
    << <<"# Index\n">>, <<CONTRIBUTORS_BEGINS, "\n">>, <<"## Contents\n">>,
       <<CONTENT_BEGINS, "\n">>, <<CONTENT_ENDS, "\n">> >>

\* the table-of-content markers are in the wrong order
ContentMisordered ==
    << <<"# Index\n">>, <<CONTRIBUTORS_BEGINS, "\n">>, <<CONTRIBUTORS_ENDS, "\n">>,
       <<CONTENT_ENDS, "\n">>, <<"old outline\n">>, <<CONTENT_BEGINS, "\n">> >>

Templates ==
    {WellFormed(n) : n \in 0..MaxBetween} \cup {NoContributorsEnd, ContentMisordered}

Idle ==
    /\ FILE_PATH = ""
    /\ condition = NoCondition
    /\ lines = <<>>
    /\ updated_lines = <<>>
    /\ status = "running"
    /\ runs = 1
    /\ k = 1

-----------------------------------------------------------------------------
(* Spec: main() over the five target files, triggered up to MaxRuns times *)

MainRecords ==
    {Details(t, c, "Sorting", DefaultDemoPath) :
        t \in {"QuickSort"}, c \in {"Theory", "Solved-Problems", "Repo", "Misc"}}

MainPaths == {MainCalls[i].path : i \in DOMAIN MainCalls}

Init ==
    /\ DATA \in LogsUpTo(1, MainRecords)
    /\ FILES = MainCalls
    /\ disk \in [MainPaths -> Templates]
    /\ disk0 = disk
    /\ pc = "main"
    /\ search_type = ""
    /\ points = NoPoints
    /\ Idle

Next ==
    \/ UpdateFileContent_init
    \/ update_table_of_contributors
    \/ update_table_of_content
    \/ write_lines_into_file
    \/ main_again

Spec == Init /\ [][Next]_vars

-----------------------------------------------------------------------------
(* SpecRender: one UpdateFileContent(FILE_PATH, condition) for every log and
   every condition *)

RenderRecords ==
    {Details(t, c, s, DefaultDemoPath) :
        t \in {"Arrays", "QuickSort", "Sorting"},
        c \in Range(Skeleton),
        s \in {"Arrays", "Sorting"}}

Conditions == {NoCondition} \cup {Predicate(S) : S \in SUBSET Range(Skeleton)}

InitRender ==
    /\ DATA \in LogsUpTo(MaxRecords, RenderRecords)
    /\ \E c \in Conditions : FILES = << [path |-> ROOT_INDEX_FILE_PATH, condition |-> c] >>
    /\ disk = (ROOT_INDEX_FILE_PATH :> WellFormed(0))
    /\ disk0 = disk
    /\ pc = "main"
    /\ search_type = ""
    /\ points = NoPoints
    /\ Idle

NextOnce ==
    \/ UpdateFileContent_init
    \/ update_table_of_contributors
    \/ update_table_of_content
    \/ write_lines_into_file

SpecRender == InitRender /\ [][NextOnce]_vars

-----------------------------------------------------------------------------
(* SpecDemo: one record, every demo-path up to MaxPathLen characters *)

PathChars == {"M", " ", "/"}

RECURSIVE PathsOfLen(_)
PathsOfLen(n) ==
    IF n = 0 THEN {<<>>}
    ELSE {Append(p, c) : <<p, c>> \in PathsOfLen(n - 1) \X PathChars}

DemoPaths == UNION {PathsOfLen(n) : n \in 0..MaxPathLen}

InitDemo ==
    /\ \E t \in {"QuickSort", "root"}, p \in DemoPaths :
          DATA = << Details(t, "Theory", "Sorting", p) >>
    /\ FILES = << [path |-> ROOT_INDEX_FILE_PATH, condition |-> NoCondition] >>
    /\ disk = (ROOT_INDEX_FILE_PATH :> WellFormed(0))
    /\ disk0 = disk
    /\ pc = "main"
    /\ search_type = ""
    /\ points = NoPoints
    /\ Idle

SpecDemo == InitDemo /\ [][NextOnce]_vars

-----------------------------------------------------------------------------
(* SpecFind: find_table_points on every file of up to MaxLines lines *)

LineKinds ==
    { <<"text\n">>,
      <<CONTRIBUTORS_BEGINS, "\n">>, <<CONTRIBUTORS_ENDS, "\n">>,
      <<CONTRIBUTORS_BEGINS, CONTRIBUTORS_ENDS, "\n">>,
      <<CONTENT_BEGINS, "\n">>, <<CONTENT_ENDS, "\n">> }

RECURSIVE FilesOfLen(_)
FilesOfLen(n) ==
    IF n = 0 THEN {<<>>}
    ELSE {Append(f, l) : <<f, l>> \in FilesOfLen(n - 1) \X LineKinds}

InitFind ==
    /\ lines \in UNION {FilesOfLen(n) : n \in 0..MaxLines}
    /\ search_type \in {"contributors", "table-of-content", "contents"}
    /\ points = NoPoints
    /\ pc = "call"
    /\ DATA = <<>>
    /\ FILES = <<>>
    /\ disk = <<>>
    /\ disk0 = disk
    /\ FILE_PATH = ""
    /\ condition = NoCondition
    /\ updated_lines = <<>>
    /\ status = "running"
    /\ runs = 1
    /\ k = 1

NextFind == call_find_table_points

SpecFind == InitFind /\ [][NextFind]_vars

-----------------------------------------------------------------------------
(* The shape of the state *)

TypeOK ==
    /\ pc \in {"main", "update_table_of_contributors", "update_table_of_content",
               "write_lines_into_file", "done", "exit", "call", "returned"}
    /\ status \in {"running", "exit 0", "exit 1", "exit 2", "exit 3",
                   "KeyError", "TypeError"}
    /\ k \in 1..Max(1, Len(FILES))
    /\ runs \in 1..MaxRuns
    /\ condition.is_none \in BOOLEAN
    /\ points.exit \in 0..3
    /\ DOMAIN disk0 = DOMAIN disk
    /\ \A i \in DOMAIN FILES : FILES[i].path \in DOMAIN disk
    /\ (pc = "exit") = (status \notin {"running", "exit 0"})

-----------------------------------------------------------------------------
(* Helpers of the properties *)

ValidType(type) == type \in {"contributors", "table-of-content"}

\* zero-based index of the first line containing the marker, None if there is none
FirstIndex(ls, marker) ==
    IF \A i \in DOMAIN ls : ~Contains(ls[i], marker) THEN None
    ELSE CHOOSE i \in 0..(Len(ls) - 1) :
            /\ Contains(ls[i + 1], marker)
            /\ \A j \in 0..(i - 1) : ~Contains(ls[j + 1], marker)

\* the lines of a file that are not strictly between a begin marker and its end marker
Outside(ls) ==
    LET c == find_table_points(ls, "contributors")
        t == find_table_points(ls, "table-of-content")
        inside(i) == (c.start < i /\ i < c.end) \/ (t.start < i /\ i < t.end)
    IN  Flatten([i \in DOMAIN ls |-> IF inside(i - 1) THEN <<>> ELSE <<ls[i]>>])

\* a demo-path with each space replaced by %20 and nothing else changed
ReplaceSpaces(p) ==
    Flatten([i \in DOMAIN p |-> IF p[i] = " " THEN <<"%20">> ELSE <<p[i]>>])

\* the row's demo link has target t
HasDemoTarget(row, t) ==
    \E i \in DOMAIN row :
        /\ i + Len(t) + 1 <= Len(row)
        /\ SubSeq(row, i, i + Len(t) + 1) = <<"](">> \o t \o <<" \"view the result of ">>

\* the records a condition lets through, in the order of the log
Eligible(data, cond) ==
    LET accepted(d) == cond.is_none \/ d.core \in cond.accepts
    IN  SelectSeq(data, accepted)

DashRow(n) == Row([i \in 1..n |-> <<"-">>])

IsDashRow(row) == \E n \in 1..Len(row) : row = DashRow(n)

\* the outline the specification describes for a log
ExpectedOutline(data, cond) ==
    LET rendered(core) ==
            core # "Repo" /\ (cond.is_none \/ core \in cond.accepts)
        specificities(core) ==
            {data[i].specificity : i \in {j \in DOMAIN data : data[j].core = core}}
        titles(core, s) ==
            {data[i].title : i \in {j \in DOMAIN data :
                /\ data[j].core = core
                /\ data[j].specificity = s
                /\ data[j].title # s}}
        under(core, s) ==
            LET ts == SortedKeys(titles(core, s))
            IN  <<heading_line(cond, core, s)>> \o
                [i \in DOMAIN ts |-> sub_heading_line(cond, core, s, ts[i])]
        category(core) ==
            IF ~rendered(core) THEN <<>>
            ELSE (IF cond.is_none THEN <<main_heading_line(core)>> ELSE <<>>) \o
                 LET ss == SortedKeys(specificities(core))
                 IN  Flatten([i \in DOMAIN ss |-> under(core, ss[i])])
    IN  Flatten([i \in DOMAIN Skeleton |-> category(Skeleton[i])])

\* the outline lines that can come from a record whose core is not Repo
LinesNotFromRepo(data, cond) ==
    LET others == {i \in DOMAIN data : data[i].core # "Repo"}
    IN  {main_heading_line(core) : core \in Range(Skeleton) \ {"Repo"}}
        \cup {heading_line(cond, data[i].core, data[i].specificity) : i \in others}
        \cup {sub_heading_line(cond, data[i].core, data[i].specificity, data[i].title) :
                i \in others}

\* a file after both updates, as the two methods compute it
Updated(ls, data, cond) ==
    LET c == find_table_points(ls, "contributors")
        l1 == contributors_lines(ls, c.start, c.end, data, cond)
        t == find_table_points(l1, "table-of-content")
    IN  content_lines(l1, t.start, t.end, content_rows(data, cond).updated_lines)

-----------------------------------------------------------------------------
(* Properties *)

\* C1: a second run on the files a first run produced leaves every file
\* exactly as the first run left it, whatever number of lines lay between the
\* contributors markers.
C1_SecondRunIdentical == (runs >= 2 /\ pc = "done") => disk = disk0

\* C2: after both updates of a file, the lines that are not strictly between
\* a begin marker and its end marker are the ones the file had, in the same
\* order, and no generated row is among them.
C2_OnlyBetweenMarkers ==
    pc = "write_lines_into_file" => Outside(lines) = Outside(disk[FILE_PATH])

\* C3: find_table_points ends with exit code 1 for an unknown table kind,
\* with 2 when the file has no line with the begin marker or no line with the
\* end marker, with 3 when both are there and the first begin line is at or
\* after the first end line, and otherwise returns begin < end, indices of
\* lines containing the respective marker.
C3_FourOutcomes ==
    pc = "returned" =>
        LET b == FirstIndex(lines, table_start_marker(search_type))
            e == FirstIndex(lines, table_end_marker(search_type))
        IN  IF ~ValidType(search_type) THEN points.exit = 1
            ELSE IF b = None \/ e = None THEN points.exit = 2
            ELSE IF b >= e THEN points.exit = 3
            ELSE /\ points.exit = 0
                 /\ 0 <= points.start /\ points.start < points.end
                 /\ points.end < Len(lines)
                 /\ Contains(lines[points.start + 1], table_start_marker(search_type))
                 /\ Contains(lines[points.end + 1], table_end_marker(search_type))

\* C4: the indices find_table_points works with are the first line with the
\* begin marker and the first line with the end marker, each found
\* independently; when one line holds both, the call ends with exit code 3.
C4_FirstLinesIndependently ==
    (pc = "returned" /\ ValidType(search_type)) =>
        LET b == FirstIndex(lines, table_start_marker(search_type))
            e == FirstIndex(lines, table_end_marker(search_type))
        IN  (b # None /\ e # None) =>
                /\ points.start = b
                /\ points.end = e
                /\ (b = e => points.exit = 3)

\* C5: the demo link target of a generated row is the record's demo-path with
\* every space replaced by %20 and nothing else changed.
C5_EverySpaceReplaced ==
    pc = "update_table_of_content" =>
        HasDemoTarget(updated_lines[1], ReplaceSpaces(DATA[1].demo_path))

\* C6: for every log and every order of its records the table of content is
\* rendered: one heading per (core, specificity) of a rendered category, in
\* ascending order, each followed by the titles that differ from the
\* specificity, once each, in ascending order.
C6_OutlineInEveryOrder ==
    (pc = "exit" \/ pc = "write_lines_into_file") =>
        /\ pc = "write_lines_into_file"
        /\ updated_lines = ExpectedOutline(DATA, condition)

C8_OnePlaceholderRow ==
    pc = "update_table_of_content" =>
        IF Eligible(DATA, condition) = <<>>
        THEN updated_lines = <<DashRow(IF condition.is_none THEN 5 ELSE 4)>>
        ELSE /\ updated_lines # <<>>
             /\ \A i \in DOMAIN updated_lines : ~IsDashRow(updated_lines[i])

C8_Witness ==
    /\ pc = "update_table_of_content"
    /\ DATA # <<>>
    /\ ~condition.is_none
    /\ Eligible(DATA, condition) = <<>>
    /\ Len(updated_lines) = 1

\* C9: the generated rows are one per eligible record, in the order of the
\* log: the i-th row carries the title of the i-th eligible record, and a
\* record the condition rejects gets no row.
C9_OneRowPerEligibleRecord ==
    pc = "update_table_of_content" =>
        LET e == Eligible(DATA, condition)
            notDash(row) == ~IsDashRow(row)
            rows == SelectSeq(updated_lines, notDash)
        IN  /\ Len(rows) = Len(e)
            /\ \A i \in DOMAIN rows : rows[i][2] = e[i].title
            /\ (e # <<>> => rows = updated_lines)

C9_Witness ==
    /\ pc = "update_table_of_content"
    /\ Len(DATA) >= 2
    /\ ~condition.is_none
    /\ DATA[1].core \notin condition.accepts
    /\ DATA[2].core \in condition.accepts
    /\ Len(updated_lines) = Len(DATA) - 1

\* C10: a file is written only once both of its tables were rendered: the
\* file being updated and every later file hold what they held when the run
\* started, also after a fatal error, and the files before it hold their
\* rewritten content.
C10_AbortWritesNothing ==
    \A j \in DOMAIN FILES :
        LET path == FILES[j].path
        IN  IF j < k \/ pc = "done"
            THEN disk[path] = Updated(disk0[path], DATA, FILES[j].condition)
            ELSE disk[path] = disk0[path]

C10_Witness ==
    /\ pc = "exit"
    /\ status = "exit 3"
    /\ k >= 2
    /\ lines # disk[FILE_PATH]
    /\ disk[FILES[1].path] # disk0[FILES[1].path]

====
